---------------------------- MODULE Spec2Model ----------------------------
(***************************************************************************)
(* Model of tool_json_writer/tool_json_writer.py: the Detector classes     *)
(* (Binary, Categorical) and the ToolJSONWriter that accumulates per-file  *)
(* records and dumps them on __del__.                                      *)
(*                                                                         *)
(* Two specifications: Spec is a writer and the calls made on it; DetSpec  *)
(* is one detector on its own and the set_result and get_result calls made *)
(* on it. Each leaves the variables of the other as they start.            *)
(*                                                                         *)
(* Python values are modelled as follows.                                  *)
(*   - None is NoneVal as a decision and NoTime as a timestamp.            *)
(*   - A dict is a sequence of [k, v] records with distinct keys, in       *)
(*     insertion order; a scores argument is wrapped as [kind, items] with *)
(*     kind "dict", "list" (a non-mapping argument) or "None" (unset).     *)
(*   - Detector objects live in a heap, addressed by object ids, so that   *)
(*     sharing and copying of objects are distinguishable.                 *)
(*   - A raised exception is the string naming it; "ok" is normal return.  *)
(*     Assertions are enabled (Python is not run with -O).                 *)
(*   - Every call passes a scores dict of its own, and datetime.now() does *)
(*     not run backwards.                                                  *)
(***************************************************************************)
EXTENDS Integers, Sequences, FiniteSets, TLC

\* ------------------------------------------------------------------ bounds
\* Largest value the wall clock (datetime.now) takes.
MaxClock == 1
\* Largest number of writer calls (prepend, append, fail, __del__) in a run.
MaxCalls == 3

\* ------------------------------------------------------------ Python values
NoneVal == "<None>"
OK == "ok"

NoneScores == [kind |-> "None", items |-> <<>>]
Dict(items) == [kind |-> "dict", items |-> items]
NotADict == [kind |-> "list", items |-> <<>>]

\* keys of a dict, as a set
Keys(items) == {items[i].k : i \in DOMAIN items}
\* dict[k], for k a key of the dict
Get(items, k) == items[CHOOSE i \in DOMAIN items : items[i].k = k].v

\* Python's sorted(range(n), key = lambda i: key[i]): the stable sort of the
\* indices 1..Len(key) by key.
SortedIndices(key) ==
    LET n == Len(key)
        pos(i) == Cardinality({j \in 1..n : key[j] < key[i]
                                            \/ (key[j] = key[i] /\ j < i)}) + 1
    IN  [p \in 1..n |-> CHOOSE i \in 1..n : pos(i) = p]

Reversed(s) == [i \in DOMAIN s |-> s[Len(s) + 1 - i]]

\* ---------------------------------------------------------------- Detector
\* A Detector object (dataclass fields, plus the subclass in `variant`).
Detector(variant, name, labels, ascending, only_flags) ==
    [variant |-> variant, name |-> name, labels |-> labels,
     scores |-> NoneScores, decision |-> NoneVal,
     ascending |-> ascending, only_flags |-> only_flags]

BinaryDetector(name, labels) == Detector("Binary", name, labels, "None", FALSE)
CategoricalDetector(name, labels, ascending, only_flags) ==
    Detector("Categorical", name, labels, ascending, only_flags)

\* set_result without the two "already set" assertions: a later call overwrites
set_result_overwrite(self, scores, decision) ==
    IF scores.kind # "dict"
      THEN [exc |-> "AssertionError: detector requires score mapping", self |-> self]
    ELSE [exc |-> OK, self |-> [self EXCEPT !.scores = scores, !.decision = decision]]

\* set_result, were it to leave out `self.decision = decision`
set_result_scores_only(self, scores, decision) ==
    IF scores.kind # "dict"
      THEN [exc |-> "AssertionError: detector requires score mapping", self |-> self]
    ELSE IF self.scores.kind # "None"
      THEN [exc |-> "AssertionError: score already set", self |-> self]
    ELSE IF self.decision # NoneVal
      THEN [exc |-> "AssertionError: decision already set", self |-> self]
    ELSE [exc |-> OK, self |-> [self EXCEPT !.scores = scores]]

\* Detector.set_result: [exc, self], self being the detector afterwards.
set_result(self, scores, decision) ==
    IF scores.kind # "dict"
      THEN [exc |-> "AssertionError: detector requires score mapping", self |-> self]
    ELSE IF self.scores.kind # "None"
      THEN [exc |-> "AssertionError: score already set", self |-> self]
    ELSE IF self.decision # NoneVal
      THEN [exc |-> "AssertionError: decision already set", self |-> self]
    ELSE [exc |-> OK, self |-> [self EXCEPT !.scores = scores, !.decision = decision]]

\* Detector.label_index: `matching`, the (1-based) positions of the label.
matching(self, l) ==
    LET decision == IF l = NoneVal THEN self.decision ELSE l
    IN  {i \in DOMAIN self.labels : self.labels[i] = decision}

\* matching[0] raises IndexError on an empty list
label_index_raises(self, l) == matching(self, l) = {}

\* the index returned (0-based, as Python counts)
label_index(self, l) ==
    (CHOOSE i \in matching(self, l) : \A j \in matching(self, l) : i <= j) - 1

\* the scores in the order of the dict, as list(self.scores.values())
ScoresInDictOrder(self) == [p \in DOMAIN self.scores.items |-> self.scores.items[p].v]

\* [self.scores[k] for k in sorted(self.scores, key=self.label_index)];
\* defined when every key of scores is a label.
ScoresByLabelIndex(self) ==
    LET items == self.scores.items
        key == [i \in DOMAIN items |-> label_index(self, items[i].k)]
        idx == SortedIndices(key)
    IN  [p \in DOMAIN items |-> items[idx[p]].v]

SomeKeyNotALabel(self) ==
    \E k \in Keys(self.scores.items) : label_index_raises(self, k)

NoResult == [labels |-> <<>>, decision |-> -1, human_readable_decision |-> NoneVal]
Raise(e, self) == [exc |-> e, res |-> NoResult, self |-> self]

\* BinaryDetector.get_result: [exc, res, self].
BinaryGetResult(self) ==
    IF self.scores.kind = "None"
      THEN Raise("TypeError", self)
    ELSE IF self.decision \notin Keys(self.scores.items)
      THEN Raise("KeyError: scores", self)
    ELSE IF label_index_raises(self, self.decision)
      THEN Raise("IndexError", self)
    ELSE IF SomeKeyNotALabel(self)
      THEN Raise("IndexError", self)
    ELSE
      LET score0 == Get(self.scores.items, self.decision)
          \* the local `score`, inverted for the first label; it is not returned
          score == IF label_index(self, self.decision) = 0 THEN 1 - score0 ELSE score0
      IN  [exc |-> OK,
           res |-> [labels |-> self.labels,
                    score |-> ScoresByLabelIndex(self),
                    decision |-> label_index(self, self.decision),
                    human_readable_decision |-> self.decision],
           self |-> self]

\* CategoricalDetector.argsort: keys of the dict in ascending order of value.
argsort(items) ==
    LET idx == SortedIndices([i \in DOMAIN items |-> items[i].v])
    IN  [p \in DOMAIN items |-> items[idx[p]].k]

\* the "fill missing" loop: every label not in scores gets score 0, appended
\* to the dict in label order
RECURSIVE FillMissing(_, _, _)
FillMissing(labels, i, items) ==
    IF i > Len(labels) THEN items
    ELSE FillMissing(labels, i + 1,
                     IF labels[i] \in Keys(items) THEN items
                     ELSE Append(items, [k |-> labels[i], v |-> 0]))

\* the result of _ordered_labels
Ordered(exc, scores, labels, self) ==
    [exc |-> exc, scores |-> scores, labels |-> labels, self |-> self]

\* the ascending/descending branch of _ordered_labels, `filled` being the
\* scores dict after the fill-missing loop and `keys` its keys in output order
OrderedByScore(self, filled, keys) ==
    Ordered(OK, [p \in DOMAIN keys |-> Get(filled, keys[p])], keys,
            [self EXCEPT !.scores = Dict(filled)])

\* `keys = self.argsort(self.scores)`, reversed when not ascending
OrderedKeys(self, filled) ==
    IF self.ascending = "False" THEN Reversed(argsort(filled)) ELSE argsort(filled)

\* the scores dict after the `if self.only_flags:` block
Filled(self) ==
    IF self.only_flags THEN FillMissing(self.labels, 1, self.scores.items)
    ELSE self.scores.items

\* _ordered_labels, were it to take unset scores for an empty dict
ordered_labels_default(self) ==
    IF self.scores.kind = "None"
      THEN IF self.ascending = "None"
             THEN Ordered(OK, <<>>, self.labels, [self EXCEPT !.scores = Dict(<<>>)])
           ELSE Ordered(OK, <<>>, <<>>, [self EXCEPT !.scores = Dict(<<>>)])
    ELSE IF self.ascending = "None" THEN
        IF SomeKeyNotALabel(self)
          THEN Ordered("IndexError", <<>>, <<>>, self)
        ELSE Ordered(OK, ScoresByLabelIndex(self), self.labels, self)
    ELSE IF self.ascending \in {"True", "False"}
      THEN OrderedByScore(self, Filled(self), OrderedKeys(self, Filled(self)))
    ELSE Ordered("TypeError", <<>>, <<>>, self)

\* CategoricalDetector._ordered_labels: [exc, scores, labels, self]; the
\* detector's scores dict is changed in place by the fill-missing loop.
ordered_labels(self) ==
    IF self.ascending = "None" THEN
        IF self.scores.kind = "None"
          THEN Ordered("TypeError", <<>>, <<>>, self)
        ELSE IF SomeKeyNotALabel(self)
          THEN Ordered("IndexError", <<>>, <<>>, self)
        ELSE Ordered(OK, ScoresByLabelIndex(self), self.labels, self)
    ELSE IF self.ascending \in {"True", "False"} THEN
        IF self.scores.kind = "None"
          THEN Ordered(IF self.only_flags THEN "TypeError" ELSE "AttributeError",
                       <<>>, <<>>, self)
        ELSE OrderedByScore(self, Filled(self), OrderedKeys(self, Filled(self)))
    ELSE Ordered("TypeError", <<>>, <<>>, self)

\* the subsequence of s at the positions i (in increasing order) with keep[i]
RECURSIVE SelectIdx(_, _, _)
SelectIdx(s, keep, i) ==
    IF i > Len(s) THEN <<>>
    ELSE (IF i \in keep THEN <<s[i]>> ELSE <<>>) \o SelectIdx(s, keep, i + 1)

Min2(a, b) == IF a < b THEN a ELSE b

\* `true_labels`, the filter `if score` left out
TrueLabels_all(labels, scores) ==
    {labels[i] : i \in 1..Min2(Len(labels), Len(scores))}

\* `true_labels`: the labels paired by zip(labels, scores) with a nonzero
\* score; zip stops at the shorter of the two
TrueLabels(labels, scores) ==
    {labels[i] : i \in {j \in 1..Min2(Len(labels), Len(scores)) : scores[j] # 0}}

\* the labels at the `flagged` positions: the declared labels among true_labels
FlaggedLabels(self, true_labels) ==
    SelectIdx(self.labels, {i \in DOMAIN self.labels : self.labels[i] \in true_labels}, 1)

\* the dict `res` of get_result, `kept` being the flagged labels
CategoricalRes(self, ol, kept) ==
    [labels |-> IF self.only_flags THEN kept ELSE ol.labels,
     scores |-> IF self.only_flags THEN [i \in DOMAIN kept |-> 1] ELSE ol.scores,
     decision |-> label_index(ol.self, ol.self.decision),
     human_readable_decision |-> ol.self.decision]

\* get_result after `scores, labels = self._ordered_labels()` gave ol
CategoricalAssemble(self, ol) ==
    IF ol.exc # OK THEN Raise(ol.exc, ol.self)
    ELSE IF label_index_raises(ol.self, ol.self.decision)
      THEN Raise("IndexError", ol.self)
    ELSE [exc |-> OK,
          res |-> CategoricalRes(self, ol,
                                 FlaggedLabels(self, TrueLabels(ol.labels, ol.scores))),
          self |-> ol.self]

\* CategoricalDetector.get_result: [exc, res, self].
CategoricalGetResult(self) == CategoricalAssemble(self, ordered_labels(self))

\* get_result, dispatched on the class of the detector
get_result(self) ==
    IF self.variant = "Binary" THEN BinaryGetResult(self)
    ELSE CategoricalGetResult(self)

\* ---------------------------------------------------------- ToolJSONWriter
VARIABLES
    detectors,  \* self.detectors: the list of template detectors (object ids)
    heap,       \* the Detector objects: object id -> fields
    data,       \* self.data: file -> its tool record
    order,      \* the keys of self.data in insertion order (dict order)
    fp,         \* self.fp: "open" or "closed"
    written,    \* what was written to the destination: one entry per json.dump
    clock,      \* the last value datetime.now() returned
    op,         \* the last call made on the writer
    exc,        \* outcome of the last call: OK or the exception it raised
    ncalls,     \* number of calls made on the writer
    called,     \* history: the files passed to prepend, append or fail
    given,      \* history: <<file, detector>> -> the arguments of the append
                \* that succeeded for it
    started,    \* history: file -> the time now() returned in the prepend
                \* that succeeded for it
    dobj,       \* a Detector object used on its own, outside any writer
    dop,        \* the last method called on dobj
    dexc,       \* outcome of that call: OK or the exception it raised
    dres,       \* what that call returned (NoResult when it returned nothing)
    dset,       \* history: a set_result call on dobj has succeeded
    dgiven      \* history: the decision argument of that call

\* the variables of the detector used on its own
dvars == <<dobj, dop, dexc, dres, dset, dgiven>>

vars == <<detectors, heap, data, order, fp, written, clock, op, exc, ncalls, called, given,
          started,
          dobj, dop, dexc, dres, dset, dgiven>>

VERSION == "1.0.0"
NoTime == -1   \* None as a timestamp

Files == {"f1", "f2"}
BinLabels == <<"a", "b">>
CatLabels == <<"a", "b", "c">>
\* the (ascending, only_flags) settings of the categorical template
CatModes == {<<"None", FALSE>>}
\* detector arguments of fail: none, a declared name, an undeclared name
FailDetectors == {NoneVal, "bin", "zz"}
Messages == {"oops"}

KV(k, v) == [k |-> k, v |-> v]
\* (detector, scores, decision) arguments of append: a result for each declared
\* detector, a decision of None, a key and decision outside the labels, an
\* undeclared detector name, and scores that are no mapping
AppendInputs ==
    { [detector |-> "bin", scores |-> Dict(<<KV("a", 1), KV("b", 0)>>), decision |-> "a"],
      [detector |-> "bin", scores |-> Dict(<<KV("b", 1), KV("a", 0)>>), decision |-> NoneVal],
      [detector |-> "cat", scores |-> Dict(<<KV("a", 1), KV("b", 0)>>), decision |-> "a"],
      [detector |-> "cat", scores |-> Dict(<<KV("a", 1), KV("x", 2)>>), decision |-> "x"],
      [detector |-> "zz", scores |-> Dict(<<KV("a", 1), KV("b", 0)>>), decision |-> "a"],
      [detector |-> "bin", scores |-> NotADict, decision |-> "a"] }

EmptyMap == [x \in {} |-> 0]
TemplateId(name) == <<"template", name>>
IsTemplate(id) == id[1] = "template"

Live(refs) == [kind |-> "live", refs |-> refs, results |-> EmptyMap]
Serialized(results) == [kind |-> "serialized", refs |-> EmptyMap, results |-> results]

\* the values datetime.now() can return next: time does not run backwards
Now(t) == {u \in t..MaxClock : u <= t + 1}

\* names of the template detectors, in list order
DetNames == [i \in DOMAIN detectors |-> heap[detectors[i]].name]

\* no copy: the record refers to the template object itself
shared_reference(owner, id) == id

\* copy.deepcopy of the detector `id`, made for `owner`: a fresh object
deepcopy(owner, id) == <<owner, id[2]>>

\* ToolJSONWriter.create_file_data, for file f at time t: [rec, heap]. rec is
\* the record of the writer's one tool, the value under ['tools'][self.tool];
\* the writer is built with the default configuration {} and filter None.
create_file_data(f, t) ==
    LET src(n) == detectors[CHOOSE i \in DOMAIN detectors : heap[detectors[i]].name = n]
        names == {DetNames[i] : i \in DOMAIN DetNames}
        refs == [n \in names |-> deepcopy(f, src(n))]
        new == {refs[n] : n \in names}
    IN  [rec |-> [version |-> VERSION,
                  configuration |-> EmptyMap,
                  filter |-> NoneVal,
                  start_timestamp |-> t,
                  end_timestamp |-> NoTime,
                  errors |-> <<>>,
                  detectors |-> Live(refs)],
         heap |-> [id \in DOMAIN heap \cup new |->
                     IF id \in DOMAIN heap THEN heap[id]
                     ELSE heap[TemplateId(id[2])]]]

\* the record made anew on every call, the `if file not in self.data` left out
EnsureRecord_always(f, t) ==
    LET c == create_file_data(f, t)
    IN  [data |-> [g \in DOMAIN data \cup {f} |-> IF g = f THEN c.rec ELSE data[g]],
         order |-> IF f \in DOMAIN data THEN order ELSE Append(order, f),
         heap |-> c.heap,
         clock |-> t]

\* `if file not in self.data: self.data[file] = self.create_file_data()`
EnsureRecord(f, t) ==
    IF f \in DOMAIN data
      THEN [data |-> data, order |-> order, heap |-> heap, clock |-> clock]
    ELSE LET c == create_file_data(f, t)
         IN  [data |-> [g \in DOMAIN data \cup {f} |-> IF g = f THEN c.rec ELSE data[g]],
              order |-> Append(order, f),
              heap |-> c.heap,
              clock |-> t]

\* the writer after __init__
WriterInit ==
    /\ \E m \in CatModes :
         heap = (TemplateId("bin") :> BinaryDetector("bin", BinLabels))
                @@ (TemplateId("cat") :> CategoricalDetector("cat", CatLabels, m[1], m[2]))
    /\ detectors = <<TemplateId("bin"), TemplateId("cat")>>
    /\ data = EmptyMap
    /\ order = <<>>
    /\ fp = "open"
    /\ written = <<>>
    /\ clock = 0
    /\ op = "__init__"
    /\ exc = OK
    /\ ncalls = 0
    /\ called = {}
    /\ given = EmptyMap
    /\ started = EmptyMap

\* a detector right after its construction: no result, no call made
Fresh(d) ==
    /\ dobj = d
    /\ dop = "__init__"
    /\ dexc = OK
    /\ dres = NoResult
    /\ dset = FALSE
    /\ dgiven = NoneVal

Init == WriterInit /\ Fresh(BinaryDetector("bin", BinLabels))

\* ToolJSONWriter.prepend, with the assertion left out: the record is made anew
prepend_overwrite(f) ==
    /\ ncalls < MaxCalls
    /\ ncalls' = ncalls + 1
    /\ op' = "prepend"
    /\ called' = called \cup {f}
    /\ \E t \in Now(clock) :
         LET c == create_file_data(f, t)
         IN  /\ data' = [g \in DOMAIN data \cup {f} |-> IF g = f THEN c.rec ELSE data[g]]
             /\ order' = IF f \in DOMAIN data THEN order ELSE Append(order, f)
             /\ heap' = c.heap
             /\ clock' = t
             /\ exc' = OK
             /\ started' = (f :> t) @@ started
    /\ UNCHANGED <<detectors, fp, written, given>>
    /\ UNCHANGED dvars

\* ToolJSONWriter.prepend, were it to refuse the call on a closed writer
prepend_guarded(f) ==
    /\ ncalls < MaxCalls
    /\ ncalls' = ncalls + 1
    /\ op' = "prepend"
    /\ called' = called \cup {f}
    /\ IF fp = "closed"
         THEN /\ exc' = "ValueError: writer is closed"
              /\ UNCHANGED <<data, order, heap, clock, started>>
       ELSE IF f \in DOMAIN data
         THEN /\ exc' = "AssertionError: prepended existing file"
              /\ UNCHANGED <<data, order, heap, clock, started>>
         ELSE \E t \in Now(clock) :
                LET c == EnsureRecord(f, t)
                IN  /\ data' = c.data
                    /\ order' = c.order
                    /\ heap' = c.heap
                    /\ clock' = c.clock
                    /\ exc' = OK
                    /\ started' = (f :> t) @@ started
    /\ UNCHANGED <<detectors, fp, written, given>>
    /\ UNCHANGED dvars

\* ToolJSONWriter.prepend
prepend(f) ==
    /\ ncalls < MaxCalls
    /\ ncalls' = ncalls + 1
    /\ op' = "prepend"
    /\ called' = called \cup {f}
    /\ IF f \in DOMAIN data
         THEN /\ exc' = "AssertionError: prepended existing file"
              /\ UNCHANGED <<data, order, heap, clock, started>>
         ELSE \E t \in Now(clock) :
                LET c == EnsureRecord(f, t)
                IN  /\ data' = c.data
                    /\ order' = c.order
                    /\ heap' = c.heap
                    /\ clock' = c.clock
                    /\ exc' = OK
                    /\ started' = (f :> t) @@ started
    /\ UNCHANGED <<detectors, fp, written, given>>
    /\ UNCHANGED dvars

NoId == <<"none", "none">>

\* the lookup with a fallback, as dict.get(detector, default) would do it: an
\* unknown name yields the first detector of the record
detector_lookup_default(dets, d) ==
    IF dets.kind = "serialized"
      THEN [exc |-> IF d \in DOMAIN dets.results
                      THEN "AttributeError" ELSE "KeyError: detectors",
            id |-> NoId]
    ELSE [exc |-> OK,
          id |-> IF d \in DOMAIN dets.refs THEN dets.refs[d] ELSE dets.refs[DetNames[1]]]

\* `self.data[file]['tools'][self.tool]['detectors'][detector].set_result` up
\* to the call: [exc, id]. In a finalized record the values are plain dicts,
\* which have no set_result.
detector_lookup(dets, d) ==
    IF dets.kind = "serialized"
      THEN [exc |-> IF d \in DOMAIN dets.results
                      THEN "AttributeError" ELSE "KeyError: detectors",
            id |-> NoId]
    ELSE IF d \notin DOMAIN dets.refs
      THEN [exc |-> "KeyError: detectors", id |-> NoId]
    ELSE [exc |-> OK, id |-> dets.refs[d]]

\* ToolJSONWriter.append, were it to leave out the refresh of end_timestamp
append_no_end(f, d, scores, decision) ==
    /\ ncalls < MaxCalls
    /\ ncalls' = ncalls + 1
    /\ op' = "append"
    /\ called' = called \cup {f}
    /\ \E t1 \in Now(clock) : \E t2 \in Now(t1) :
         LET c == EnsureRecord(f, t1)
             look == detector_lookup(c.data[f].detectors, d)
         IN  /\ order' = c.order
             /\ IF look.exc # OK
                  THEN /\ exc' = look.exc
                       /\ data' = c.data /\ heap' = c.heap /\ clock' = c.clock
                       /\ given' = given
                ELSE
                  LET r == set_result(c.heap[look.id], scores, decision)
                  IN  IF r.exc # OK
                        THEN /\ exc' = r.exc
                             /\ data' = c.data /\ heap' = c.heap /\ clock' = c.clock
                             /\ given' = given
                        ELSE /\ exc' = OK
                             /\ heap' = [c.heap EXCEPT ![look.id] = r.self]
                             /\ data' = c.data
                             /\ clock' = t2
                             /\ given' = (<<f, d>> :> [scores |-> scores,
                                                       decision |-> decision]) @@ given
    /\ UNCHANGED <<detectors, fp, written>>
    /\ UNCHANGED <<dvars, started>>

\* ToolJSONWriter.append
append(f, d, scores, decision) ==
    /\ ncalls < MaxCalls
    /\ ncalls' = ncalls + 1
    /\ op' = "append"
    /\ called' = called \cup {f}
    /\ \E t1 \in Now(clock) : \E t2 \in Now(t1) :
         LET c == EnsureRecord(f, t1)
             look == detector_lookup(c.data[f].detectors, d)
         IN  /\ order' = c.order
             /\ IF look.exc # OK
                  THEN /\ exc' = look.exc
                       /\ data' = c.data /\ heap' = c.heap /\ clock' = c.clock
                       /\ given' = given
                ELSE
                  LET r == set_result(c.heap[look.id], scores, decision)
                  IN  IF r.exc # OK
                        THEN /\ exc' = r.exc
                             /\ data' = c.data /\ heap' = c.heap /\ clock' = c.clock
                             /\ given' = given
                        ELSE /\ exc' = OK
                             /\ heap' = [c.heap EXCEPT ![look.id] = r.self]
                             /\ data' = [c.data EXCEPT ![f].end_timestamp = t2]
                             /\ clock' = t2
                             /\ given' = (<<f, d>> :> [scores |-> scores,
                                                       decision |-> decision]) @@ given
    /\ UNCHANGED <<detectors, fp, written>>
    /\ UNCHANGED <<dvars, started>>

\* the message fail() stores
FailMessage(message, detector) ==
    IF detector # NoneVal THEN detector \o " error: " \o message ELSE message

\* ToolJSONWriter.fail, were it to look the detector up as append does
fail_strict(f, message, detector) ==
    /\ ncalls < MaxCalls
    /\ ncalls' = ncalls + 1
    /\ op' = "fail"
    /\ called' = called \cup {f}
    /\ \E t \in Now(clock) :
         LET c == EnsureRecord(f, t)
             known == detector = NoneVal
                      \/ detector \in DOMAIN c.data[f].detectors.refs
         IN  /\ data' = IF known
                          THEN [c.data EXCEPT ![f].errors =
                                  Append(@, FailMessage(message, detector))]
                          ELSE c.data
             /\ order' = c.order
             /\ heap' = c.heap
             /\ clock' = c.clock
             /\ exc' = IF known THEN OK ELSE "KeyError: detectors"
    /\ UNCHANGED <<detectors, fp, written, given>>
    /\ UNCHANGED <<dvars, started>>

\* ToolJSONWriter.fail, without the lazy creation of the record
fail_nolazy(f, message, detector) ==
    /\ ncalls < MaxCalls
    /\ ncalls' = ncalls + 1
    /\ op' = "fail"
    /\ called' = called \cup {f}
    /\ IF f \in DOMAIN data
         THEN /\ data' = [data EXCEPT ![f].errors =
                            Append(@, FailMessage(message, detector))]
              /\ exc' = OK
         ELSE /\ data' = data
              /\ exc' = "KeyError: data"
    /\ UNCHANGED <<detectors, fp, written, given, order, heap, clock>>
    /\ UNCHANGED <<dvars, started>>

\* ToolJSONWriter.fail
fail(f, message, detector) ==
    /\ ncalls < MaxCalls
    /\ ncalls' = ncalls + 1
    /\ op' = "fail"
    /\ called' = called \cup {f}
    /\ \E t \in Now(clock) :
         LET c == EnsureRecord(f, t)
         IN  /\ data' = [c.data EXCEPT ![f].errors =
                           Append(@, FailMessage(message, detector))]
             /\ order' = c.order
             /\ heap' = c.heap
             /\ clock' = c.clock
             /\ exc' = OK
    /\ UNCHANGED <<detectors, fp, written, given>>
    /\ UNCHANGED <<dvars, started>>

\* the comprehension, were it to stop at the first undecided detector
RECURSIVE SerializeDetectors_break(_, _, _, _)
SerializeDetectors_break(names, refs, hp, acc) ==
    IF names = <<>> THEN [exc |-> OK, heap |-> hp, results |-> acc]
    ELSE
      LET n == Head(names)
          id == refs[n]
      IN  IF hp[id].decision = NoneVal
            THEN [exc |-> OK, heap |-> hp, results |-> acc]
          ELSE
            LET r == get_result(hp[id])
                hp2 == [hp EXCEPT ![id] = r.self]
            IN  IF r.exc # OK
                  THEN [exc |-> r.exc, heap |-> hp2, results |-> acc]
                ELSE SerializeDetectors_break(Tail(names), refs, hp2,
                                              (n :> r.res) @@ acc)

\* The dict comprehension of __del__ over one record's live detectors, in dict
\* order: [exc, heap, results]. get_result may change a detector in place.
RECURSIVE SerializeDetectors(_, _, _, _)
SerializeDetectors(names, refs, hp, acc) ==
    IF names = <<>> THEN [exc |-> OK, heap |-> hp, results |-> acc]
    ELSE
      LET n == Head(names)
          id == refs[n]
      IN  IF hp[id].decision = NoneVal
            THEN SerializeDetectors(Tail(names), refs, hp, acc)
          ELSE
            LET r == get_result(hp[id])
                hp2 == [hp EXCEPT ![id] = r.self]
            IN  IF r.exc # OK
                  THEN [exc |-> r.exc, heap |-> hp2, results |-> acc]
                ELSE SerializeDetectors(Tail(names), refs, hp2, (n :> r.res) @@ acc)

\* the loop, were it to leave already serialized records alone
RECURSIVE SerializeFiles_skip(_, _, _)
SerializeFiles_skip(files, dt, hp) ==
    IF files = <<>> THEN [exc |-> OK, data |-> dt, heap |-> hp]
    ELSE
      LET f == Head(files)
          dets == dt[f].detectors
      IN  IF dets.kind = "serialized"
            THEN SerializeFiles_skip(Tail(files), dt, hp)
          ELSE
            LET r == SerializeDetectors(DetNames, dets.refs, hp, EmptyMap)
            IN  IF r.exc # OK
                  THEN [exc |-> r.exc, data |-> dt, heap |-> r.heap]
                ELSE SerializeFiles_skip(Tail(files),
                                         [dt EXCEPT ![f].detectors = Serialized(r.results)],
                                         r.heap)

\* The loop `for f in self.data` of __del__: [exc, data, heap].
RECURSIVE SerializeFiles(_, _, _)
SerializeFiles(files, dt, hp) ==
    IF files = <<>> THEN [exc |-> OK, data |-> dt, heap |-> hp]
    ELSE
      LET f == Head(files)
          dets == dt[f].detectors
      IN  IF dets.kind = "serialized"
            THEN \* the values are dicts already: `detector.decision` fails
                 IF DOMAIN dets.results # {}
                   THEN [exc |-> "AttributeError", data |-> dt, heap |-> hp]
                 ELSE SerializeFiles(Tail(files), dt, hp)
          ELSE
            LET r == SerializeDetectors(DetNames, dets.refs, hp, EmptyMap)
            IN  IF r.exc # OK
                  THEN [exc |-> r.exc, data |-> dt, heap |-> r.heap]
                ELSE SerializeFiles(Tail(files),
                                    [dt EXCEPT ![f].detectors = Serialized(r.results)],
                                    r.heap)

\* objects no longer referenced are freed
Collect(hp, dt) ==
    LET used == {id \in DOMAIN hp :
                   \/ IsTemplate(id)
                   \/ \E f \in DOMAIN dt : \E n \in DOMAIN dt[f].detectors.refs :
                        dt[f].detectors.refs[n] = id}
    IN  [id \in used |-> hp[id]]

\* json.dump(self.data, ...): the members of the JSON object, in dict order
Dump(dt, keys) == [i \in DOMAIN keys |-> [key |-> keys[i], value |-> dt[keys[i]]]]

IOError == "ValueError: I/O operation on closed file"

\* ToolJSONWriter.__del__ (finalize)
Finalize ==
    /\ ncalls < MaxCalls
    /\ ncalls' = ncalls + 1
    /\ op' = "__del__"
    /\ LET r == SerializeFiles(order, data, heap)
       IN  /\ data' = r.data
           /\ heap' = Collect(r.heap, r.data)
           /\ IF r.exc # OK
                THEN /\ exc' = r.exc
                     /\ UNCHANGED <<fp, written>>
              ELSE IF fp = "closed"
                THEN /\ exc' = IOError
                     /\ UNCHANGED <<fp, written>>
              ELSE /\ written' = Append(written, Dump(r.data, order))
                   /\ fp' = "closed"
                   /\ exc' = OK
    /\ UNCHANGED <<detectors, order, clock, called, given>>
    /\ UNCHANGED <<dvars, started>>

Next ==
    \/ \E f \in Files : prepend(f)
    \/ \E f \in Files, a \in AppendInputs :
         append(f, a.detector, a.scores, a.decision)
    \/ \E f \in Files, m \in Messages, d \in FailDetectors : fail(f, m, d)
    \/ Finalize

Spec == Init /\ [][Next]_vars

\* ------------------------------------------------- a detector on its own
\* Largest number of entries of a scores dict passed to set_result.
MaxKeys == 2

\* keys of the scores dicts: labels and a key that is no label; the label "c"
\* of the categorical detector never gets a score
ScoreKeys == {"a", "b", "x"}
ScoreValues == {0, 1}
\* decision arguments of set_result: None, labels, and a key that is no label
Decisions == {NoneVal, "a", "b", "x"}
\* values of CategoricalDetector.ascending: None, True, False, and a value
\* that is neither None nor a bool
Ascendings == {"None", "True", "False", "other"}

\* the dicts of n entries: the ways to add one entry to a dict of n - 1
RECURSIVE DictsOfLen(_)
DictsOfLen(n) ==
    IF n = 0 THEN {<<>>}
    ELSE {Append(d, KV(k, v)) : d \in DictsOfLen(n - 1),
                                k \in ScoreKeys, v \in ScoreValues}

\* scores arguments of set_result: the dicts of up to MaxKeys entries with
\* distinct keys, in every insertion order, and an argument that is no dict
ScoresInputs ==
    {Dict(d) : d \in {e \in UNION {DictsOfLen(n) : n \in 0..MaxKeys} :
                        \A i, j \in DOMAIN e : e[i].k = e[j].k => i = j}}
    \cup {NotADict}

\* the detectors as constructed: a binary one and a categorical one in each
\* mode
DetectorInputs ==
    {BinaryDetector("bin", BinLabels)}
    \cup {CategoricalDetector("cat", CatLabels, asc, flags) :
            asc \in Ascendings, flags \in BOOLEAN}

DetInit == WriterInit /\ \E d \in DetectorInputs : Fresh(d)

\* a call dobj.set_result(scores, decision)
call_set_result(scores, decision) ==
    /\ LET r == set_result(dobj, scores, decision)
       IN  /\ dobj' = r.self
           /\ dexc' = r.exc
           /\ dset' = (dset \/ r.exc = OK)
           /\ dgiven' = IF r.exc = OK THEN decision ELSE dgiven
    /\ dop' = "set_result"
    /\ dres' = NoResult
    /\ UNCHANGED <<detectors, heap, data, order, fp, written, clock, op, exc,
                   ncalls, called, given, started>>

\* a call dobj.get_result()
call_get_result ==
    /\ LET r == get_result(dobj)
       IN  /\ dobj' = r.self
           /\ dexc' = r.exc
           /\ dres' = r.res
    /\ dop' = "get_result"
    /\ UNCHANGED <<dset, dgiven>>
    /\ UNCHANGED <<detectors, heap, data, order, fp, written, clock, op, exc,
                   ncalls, called, given, started>>

DetNext ==
    \/ \E scores \in ScoresInputs, decision \in Decisions :
         call_set_result(scores, decision)
    \/ call_get_result

DetSpec == DetInit /\ [][DetNext]_vars

\* ------------------------------------------------------------------ claims
\* names of the detectors declared at construction
DeclaredNames == {DetNames[i] : i \in DOMAIN DetNames}
IsLive(f) == f \in DOMAIN data /\ data[f].detectors.kind = "live"
IsSerialized(f) == f \in DOMAIN data /\ data[f].detectors.kind = "serialized"
AlreadyExists == "AssertionError: prepended existing file"
NotFound == "KeyError: detectors"
InvalidState == {"AssertionError: detector requires score mapping",
                 "AssertionError: score already set",
                 "AssertionError: decision already set"}

\* C1: once set_result has succeeded on a detector (here: the copy of detector
\* d in file f's record, through append), every later set_result call on it
\* fails with an assertion and leaves its scores and decision as they were.
C1_SecondSetResultFails ==
    [][\A f \in Files, a \in AppendInputs :
         ( /\ append(f, a.detector, a.scores, a.decision)
           /\ IsLive(f)
           /\ <<f, a.detector>> \in DOMAIN given )
         => LET id == data[f].detectors.refs[a.detector]
            IN  /\ exc' \in InvalidState
                /\ heap'[id].scores = heap[id].scores
                /\ heap'[id].decision = heap[id].decision
                /\ given' = given]_vars

\* C1 witness: an append was rejected because the detector had its result.
C1_Witness ==
    /\ op = "append"
    /\ exc = "AssertionError: score already set"
    /\ \E f \in Files, d \in DeclaredNames :
         /\ <<f, d>> \in DOMAIN given
         /\ IsLive(f)
         /\ heap[data[f].detectors.refs[d]].scores = given[<<f, d>>].scores

\* C2: append(f, d, scores, decision) leaves the template detectors (which
\* stay unset) and every other record with its detectors as they were, and
\* changes no other detector of f; and it succeeds for a declared detector and
\* a scores mapping whenever d has no result yet in f's (unfinalized) record,
\* whatever the other files hold.
C2_AppendFrame ==
    [][\A f \in Files, a \in AppendInputs :
         append(f, a.detector, a.scores, a.decision)
         => /\ \A i \in DOMAIN detectors :
                 /\ heap'[detectors[i]] = heap[detectors[i]]
                 /\ heap'[detectors[i]].scores = NoneScores
                 /\ heap'[detectors[i]].decision = NoneVal
            /\ \A g \in DOMAIN data \ {f} :
                 /\ data'[g] = data[g]
                 /\ \A n \in DOMAIN data[g].detectors.refs :
                      heap'[data[g].detectors.refs[n]] = heap[data[g].detectors.refs[n]]
            /\ \A n \in DOMAIN data'[f].detectors.refs \ {a.detector} :
                 LET id == data'[f].detectors.refs[n]
                 IN  IF f \in DOMAIN data
                       THEN heap'[id] = heap[id]
                       ELSE heap'[id].scores = NoneScores /\ heap'[id].decision = NoneVal
            /\ ( /\ a.scores.kind = "dict"
                 /\ a.detector \in DeclaredNames
                 /\ <<f, a.detector>> \notin DOMAIN given
                 /\ ~IsSerialized(f) )
               => /\ exc' = OK
                  /\ heap'[data'[f].detectors.refs[a.detector]].scores = a.scores
                  /\ heap'[data'[f].detectors.refs[a.detector]].decision = a.decision]_vars

\* C2 witness: the same detector holds different results in two files, the
\* template being unset.
C2_Witness ==
    /\ IsLive("f1") /\ IsLive("f2")
    /\ heap[data["f1"].detectors.refs["cat"]].decision = "a"
    /\ heap[data["f2"].detectors.refs["cat"]].decision = "x"
    /\ heap[TemplateId("cat")].decision = NoneVal
    /\ heap[TemplateId("cat")].scores = NoneScores

\* the detector d as it is after set_result(scores, decision) on a fresh copy
Decided(d, args) ==
    [heap[TemplateId(d)] EXCEPT !.scores = args.scores, !.decision = args.decision]

\* C3 as stated: the detectors map of a finalized record holds exactly the
\* detector names for which an append succeeded on that file.
C3_Original ==
    \A f \in DOMAIN data :
        IsSerialized(f)
        => DOMAIN data[f].detectors.results
             = {d \in DeclaredNames : <<f, d>> \in DOMAIN given}

\* C3 amended: a finalize that completes leaves every record serialized, and
\* the detectors map of a serialized record holds exactly the detector names
\* for which an append with a decision other than None succeeded on that file,
\* each with the result get_result gives for the scores and decision appended.
C3_FinalizedDetectors ==
    /\ (op = "__del__" /\ exc = OK) => \A f \in DOMAIN data : IsSerialized(f)
    /\ \A f \in DOMAIN data :
        IsSerialized(f)
        => LET decided == {d \in DeclaredNames :
                             /\ <<f, d>> \in DOMAIN given
                             /\ given[<<f, d>>].decision # NoneVal}
           IN  /\ DOMAIN data[f].detectors.results = decided
               /\ \A d \in decided :
                    data[f].detectors.results[d] = get_result(Decided(d, given[<<f, d>>])).res

\* C3 witness: after finalize one record holds the result of the one detector
\* it was given, and another record, never given a result, holds none.
C3_Witness ==
    /\ op = "__del__" /\ exc = OK
    /\ \E f, g \in DOMAIN data :
         /\ IsSerialized(f) /\ IsSerialized(g)
         /\ DOMAIN data[f].detectors.results = {"cat"}
         /\ data[f].detectors.results["cat"].human_readable_decision = "a"
         /\ DOMAIN data[g].detectors.results = {}

\* C4: the document a finalize writes has one member per file passed to the
\* prepend, append and fail calls made before it, and no other member.
C4_DocumentKeys ==
    [][(Finalize /\ written' # written)
       => LET doc == written'[Len(written')]
          IN  /\ {doc[i].key : i \in DOMAIN doc} = called
              /\ \A i, j \in DOMAIN doc : doc[i].key = doc[j].key => i = j]_vars

\* C4 witness: a document with two members was written.
C4_Witness ==
    /\ op = "__del__" /\ exc = OK
    /\ Len(written) = 1
    /\ {written[1][i].key : i \in DOMAIN written[1]} = {"f1", "f2"}

\* C5 as stated: the document is written at most once, and every finalize on
\* an open writer ends with the whole document written and the destination
\* released.
C5_Original ==
    [][/\ Len(written') <= 1
       /\ (Finalize /\ fp = "open")
          => /\ exc' = OK
             /\ fp' = "closed"
             /\ written' = <<Dump(data', order)>>]_vars

\* C6: prepend of a file that has a record fails with the assertion and
\* leaves every record (its start_timestamp too) as it was.
C6_PrependExisting ==
    [][\A f \in Files :
         (prepend(f) /\ f \in DOMAIN data)
         => /\ exc' = AlreadyExists
            /\ data' = data
            /\ order' = order
            /\ heap' = heap]_vars

\* C6 witness: a prepend was rejected for a file whose record an append made.
C6_Witness ==
    /\ op = "prepend" /\ exc = AlreadyExists
    /\ \E f \in DOMAIN data : data[f].end_timestamp # NoTime

\* C7: append with a detector name that was not declared fails with the
\* lookup error, and no detector object gets a result from the call.
C7_UndeclaredDetector ==
    [][\A f \in Files, a \in AppendInputs :
         (append(f, a.detector, a.scores, a.decision) /\ a.detector \notin DeclaredNames)
         => /\ exc' = NotFound
            /\ given' = given
            /\ \A id \in DOMAIN heap' :
                 /\ heap'[id].scores =
                      IF id \in DOMAIN heap THEN heap[id].scores ELSE NoneScores
                 /\ heap'[id].decision =
                      IF id \in DOMAIN heap THEN heap[id].decision ELSE NoneVal]_vars

\* C7 witness: an append on a record with live detectors failed in the lookup.
C7_Witness ==
    /\ op = "append" /\ exc = NotFound
    /\ DOMAIN data # {}
    /\ \A f \in DOMAIN data : IsLive(f)

\* C8: fail never raises; afterwards the file has a record whose errors list
\* is the former list (empty for a new record) with one entry added at the
\* end, "<detector> error: <message>" or the message alone; no other record
\* changes.
C8_FailNeverFails ==
    [][\A f \in Files, m \in Messages, d \in FailDetectors :
         fail(f, m, d)
         => /\ exc' = OK
            /\ f \in DOMAIN data'
            /\ data'[f].errors =
                 Append(IF f \in DOMAIN data THEN data[f].errors ELSE <<>>,
                        IF d = NoneVal THEN m ELSE d \o " error: " \o m)
            /\ \A g \in DOMAIN data \ {f} : data'[g] = data[g]]_vars

\* C8 witness: a second error, naming an undeclared detector, was added.
C8_Witness ==
    /\ op = "fail" /\ exc = OK
    /\ \E f \in DOMAIN data : data[f].errors = <<"oops", "zz error: oops">>

\* some record holds an already serialized detector result
HasSerializedResult ==
    \E f \in DOMAIN data : IsSerialized(f) /\ DOMAIN data[f].detectors.results # {}

\* C9 as stated: a finalize after the destination was released fails with the
\* I/O error of a write to a closed file, and writes nothing.
C9_Original ==
    [][(Finalize /\ fp = "closed") => (exc' = IOError /\ written' = written)]_vars

\* C9 amended: a finalize after the destination was released fails and writes
\* nothing; it fails with an AttributeError, before any write is attempted,
\* when some record holds a serialized detector result, and with the I/O
\* error of a write to a closed file when every record is serialized and holds
\* none.
C9_SecondFinalize ==
    [][(Finalize /\ fp = "closed")
       => /\ exc' # OK
          /\ written' = written
          /\ fp' = "closed"
          /\ HasSerializedResult => exc' = "AttributeError"
          /\ (~HasSerializedResult /\ \A f \in DOMAIN data : IsSerialized(f))
             => exc' = IOError]_vars

\* C9 witness: a second finalize failed on a serialized detector result.
C9_Witness ==
    /\ op = "__del__" /\ exc = "AttributeError"
    /\ fp = "closed" /\ Len(written) = 1
    /\ HasSerializedResult

\* C10 as stated: finalize does not raise when a categorical detector in
\* unordered mode holds a scores key outside its labels, that key being its
\* decision.
C10_Original ==
    [][( /\ Finalize
         /\ fp = "open"
         /\ \A f \in DOMAIN data : IsLive(f)
         /\ \E f \in DOMAIN data : \E n \in DOMAIN data[f].detectors.refs :
              LET det == heap[data[f].detectors.refs[n]]
              IN  /\ det.variant = "Categorical"
                  /\ det.ascending = "None"
                  /\ det.scores.kind = "dict"
                  /\ det.decision \in Keys(det.scores.items)
                  /\ \A i \in DOMAIN det.labels : det.labels[i] # det.decision )
       => exc' = OK]_vars

\* C11 as stated: the scores and the decision of a detector are both unset or
\* both set.
C11_Original ==
    (dobj.scores.kind = "None") <=> (dobj.decision = NoneVal)

\* C11 amended: the scores of a detector are set exactly when a set_result
\* call was accepted, and its decision is then the decision argument of that
\* call; so the decision is never set while the scores are unset, and the
\* scores are set with the decision unset exactly when the accepted call was
\* given the decision None.
C11_ScoresDecisionPairing ==
    /\ dset <=> dobj.scores.kind = "dict"
    /\ ~dset => (dobj.scores = NoneScores /\ dobj.decision = NoneVal)
    /\ dset => dobj.decision = dgiven

\* C11 witness: a detector holding a result has rejected a later set_result.
C11_Witness ==
    /\ dop = "set_result"
    /\ dexc = "AssertionError: score already set"
    /\ dset
    /\ dobj.decision = "b"
    /\ dobj.scores.kind = "dict"

\* the exceptions get_result raises by using the unset scores (None): a
\* subscript, an iteration or a membership test of None (TypeError), or
\* None.keys() (AttributeError)
ResultNotSet == {"TypeError", "AttributeError"}

\* C12: get_result on a detector (binary, or categorical in any mode) that no
\* set_result call was accepted on fails, with one of the errors of reading
\* the unset scores, returns no fragment and leaves the detector as it was.
C12_GetResultBeforeSet ==
    [][(call_get_result /\ ~dset)
       => /\ dexc' \in ResultNotSet
          /\ dres' = NoResult
          /\ dobj' = dobj]_vars

\* C12 witness: get_result failed on a categorical detector in descending
\* mode that had rejected a set_result call and so had no result.
C12_Witness ==
    /\ dop = "get_result"
    /\ ~dset
    /\ dexc = "AttributeError"
    /\ dres = NoResult
    /\ dobj.variant = "Categorical" /\ dobj.ascending = "False"
    /\ dobj.scores = NoneScores

\* files that have a result: some append succeeded for them
HasResult(g) == {f \in Files : \E d \in DeclaredNames : <<f, d>> \in DOMAIN g}

\* C13: a file announced with prepend keeps a record whose start_timestamp is
\* the time of that prepend, whatever is called later; once an append has
\* succeeded for it, its end_timestamp is set and not before its
\* start_timestamp; and its errors list changes only in a fail call for that
\* file, so it is empty when fail was never called for the file.
C13_PrependThenAppend ==
    [][\A f \in DOMAIN started' :
         /\ f \in DOMAIN data'
         /\ data'[f].start_timestamp = started'[f]
         /\ data'[f].start_timestamp # NoTime
         /\ f \in HasResult(given')
            => /\ data'[f].end_timestamp # NoTime
               /\ data'[f].start_timestamp <= data'[f].end_timestamp
         /\ f \notin DOMAIN started => data'[f].errors = <<>>
         /\ (f \in DOMAIN started /\ data'[f].errors # data[f].errors)
            => \E m \in Messages, d \in FailDetectors : fail(f, m, d)]_vars

\* C13 witness: a file was announced at time 0 and given a result at time 1,
\* a failure being reported for another file only.
C13_Witness ==
    /\ op = "append" /\ exc = OK
    /\ "f1" \in DOMAIN started /\ started["f1"] = 0
    /\ "f1" \in HasResult(given)
    /\ data["f1"].start_timestamp = 0
    /\ data["f1"].end_timestamp = 1
    /\ data["f1"].errors = <<>>
    /\ "f2" \in DOMAIN data /\ data["f2"].errors # <<>>

\* C14: an append that succeeds for a file without a record (no prepend, nor
\* any other call, came before it for that file) leaves a complete record:
\* start_timestamp and end_timestamp are both set, both read during the call
\* and in that order, and errors is empty.
C14_AppendWithoutPrepend ==
    [][\A f \in Files, a \in AppendInputs :
         ( /\ append(f, a.detector, a.scores, a.decision)
           /\ f \notin called
           /\ exc' = OK )
         => /\ f \in DOMAIN data'
            /\ f \notin DOMAIN started'
            /\ data'[f].start_timestamp # NoTime
            /\ data'[f].end_timestamp # NoTime
            /\ clock <= data'[f].start_timestamp
            /\ data'[f].start_timestamp <= data'[f].end_timestamp
            /\ data'[f].end_timestamp = clock'
            /\ data'[f].errors = <<>>]_vars

\* C14 witness: the first call for a file was an append, made after the
\* clock had advanced, and the record has both timestamps and no error.
C14_Witness ==
    /\ op = "append" /\ exc = OK
    /\ called = {"f1", "f2"}
    /\ DOMAIN started = {"f1"}
    /\ HasResult(given) = {"f2"}
    /\ data["f2"].start_timestamp = 1
    /\ data["f2"].end_timestamp = 1
    /\ data["f2"].errors = <<>>

\* C14 as stated: after an append call that is the first reference to a file,
\* the file's record has start_timestamp and end_timestamp set and no error.
C14_Original ==
    [][\A f \in Files, a \in AppendInputs :
         (append(f, a.detector, a.scores, a.decision) /\ f \notin called)
         => /\ f \in DOMAIN data'
            /\ data'[f].start_timestamp # NoTime
            /\ data'[f].end_timestamp # NoTime
            /\ data'[f].errors = <<>>]_vars

\* C15: for a binary detector with labels [n, p], scores on exactly n and p
\* and a decision among them, get_result returns the labels, the two scores
\* in label order (whatever the order of the dict), the position of the
\* decision and the decision itself.
C15_BinaryResult ==
    [][( /\ call_get_result
         /\ dobj.variant = "Binary"
         /\ dobj.scores.kind = "dict"
         /\ Keys(dobj.scores.items) = {dobj.labels[1], dobj.labels[2]}
         /\ dobj.decision \in {dobj.labels[1], dobj.labels[2]} )
       => /\ dexc' = OK
          /\ dres'.labels = dobj.labels
          /\ dres'.score = <<Get(dobj.scores.items, dobj.labels[1]),
                             Get(dobj.scores.items, dobj.labels[2])>>
          /\ dres'.decision = (IF dobj.decision = dobj.labels[1] THEN 0 ELSE 1)
          /\ dres'.human_readable_decision = dobj.decision]_vars

\* C15 witness: a result for the second label, from a dict that holds the
\* second label first.
C15_Witness ==
    /\ dop = "get_result" /\ dexc = OK
    /\ dobj.variant = "Binary"
    /\ dobj.scores = Dict(<<KV("b", 0), KV("a", 1)>>)
    /\ dobj.decision = "b"
    /\ dres.labels = <<"a", "b">>
    /\ dres.score = <<1, 0>>
    /\ dres.decision = 1
    /\ dres.human_readable_decision = "b"

\* C16 as stated: for a binary detector whose decision is the first label and
\* whose two scores sum to 1, the score that get_result returns is the
\* directional score 1 - scores[decision] (the score member of the fragment
\* is a list in the model, so that one number is written as the list of it).
C16_Original ==
    [][( /\ call_get_result
         /\ dobj.variant = "Binary"
         /\ dobj.scores.kind = "dict"
         /\ Keys(dobj.scores.items) = {dobj.labels[1], dobj.labels[2]}
         /\ dobj.decision = dobj.labels[1]
         /\ Get(dobj.scores.items, dobj.labels[1])
              + Get(dobj.scores.items, dobj.labels[2]) = 1 )
       => /\ dexc' = OK
          /\ dres'.score = <<1 - Get(dobj.scores.items, dobj.decision)>>]_vars

\* the declared labels that the scores dict `items` gives a nonzero score, in
\* declaration order
NonzeroLabels(labels, items) ==
    SelectIdx(labels, {i \in DOMAIN labels : /\ labels[i] \in Keys(items)
                                             /\ Get(items, labels[i]) # 0}, 1)

\* C17: for a categorical detector with only_flags and ascending True or
\* False whose scores omit some declared label, get_result returns a fragment
\* exactly when the decision is a declared label, and the labels of the
\* fragment are then the declared labels that the scores give a nonzero score
\* (an omitted label counting as 0, so none appears), in declaration order,
\* each with the score 1.
C17_OnlyFlagsMissingLabel ==
    [][( /\ call_get_result
         /\ dobj.variant = "Categorical"
         /\ dobj.only_flags
         /\ dobj.ascending \in {"True", "False"}
         /\ dobj.scores.kind = "dict"
         /\ \E i \in DOMAIN dobj.labels : dobj.labels[i] \notin Keys(dobj.scores.items) )
       => /\ dexc' = OK <=> \E i \in DOMAIN dobj.labels : dobj.labels[i] = dobj.decision
          /\ dexc' = OK
             => /\ dres'.labels = NonzeroLabels(dobj.labels, dobj.scores.items)
                /\ dres'.scores = [i \in DOMAIN dres'.labels |-> 1]]_vars

\* C17 witness: in descending mode, with the label "c" omitted, the fragment
\* holds the two scored labels in declaration order.
C17_Witness ==
    /\ dop = "get_result" /\ dexc = OK
    /\ dobj.variant = "Categorical" /\ dobj.only_flags /\ dobj.ascending = "False"
    /\ dobj.scores = Dict(<<KV("b", 1), KV("a", 1), KV("c", 0)>>)
    /\ dres.labels = <<"a", "b">>
    /\ dres.scores = <<1, 1>>

\* C18 as stated: for a categorical detector in unordered mode (ascending is
\* None) get_result fails, and returns no fragment, whenever some declared
\* label has no entry in the scores dict.
C18_Original ==
    [][( /\ call_get_result
         /\ dobj.variant = "Categorical"
         /\ dobj.ascending = "None"
         /\ dobj.scores.kind = "dict"
         /\ \E i \in DOMAIN dobj.labels : dobj.labels[i] \notin Keys(dobj.scores.items) )
       => /\ dexc' # OK
          /\ dres' = NoResult]_vars

\* prepend, append and fail: the calls that add to the records
RecordCalls == {"prepend", "append", "fail"}

\* C19 as stated: once finalize has written the document, every later
\* prepend, append or fail call is rejected and leaves what was written as it
\* is.
C19_Original ==
    [][(written # <<>> /\ op' \in RecordCalls)
       => (exc' # OK /\ written' = written)]_vars

\* C19 amended: once finalize has written the document, no later prepend,
\* append or fail call changes what was written or reopens the destination;
\* but fail still succeeds and adds its message, prepend succeeds exactly for
\* a file without a record, and append is rejected for a file whose record
\* was finalized (its detectors are plain results) and leaves that record as
\* it is.
C19_AfterFinalize ==
    [][(written # <<>> /\ op' \in RecordCalls)
       => /\ written' = written
          /\ fp' = "closed"
          /\ \A f \in Files :
               /\ (\E m \in Messages, d \in FailDetectors : fail(f, m, d))
                  => (exc' = OK /\ data'[f].errors # <<>>)
               /\ prepend(f) => (exc' = OK <=> f \notin DOMAIN data)
               /\ ( /\ \E a \in AppendInputs : append(f, a.detector, a.scores, a.decision)
                    /\ IsSerialized(f) )
                  => /\ exc' \in {"AttributeError", NotFound}
                     /\ data' = data]_vars

\* C19 witness: after the document was written, a prepend made a record for
\* a file that the document does not hold.
C19_Witness ==
    /\ op = "prepend" /\ exc = OK
    /\ fp = "closed"
    /\ Len(written) = 1
    /\ {written[1][i].key : i \in DOMAIN written[1]} = {"f1"}
    /\ DOMAIN data = {"f1", "f2"}
    /\ IsSerialized("f1") /\ IsLive("f2")

\* C20 as stated: get_result on a detector with a result leaves its labels,
\* its scores and its decision as they were.
C20_Original ==
    [][(call_get_result /\ dset)
       => /\ dobj'.labels = dobj.labels
          /\ dobj'.scores = dobj.scores
          /\ dobj'.decision = dobj.decision]_vars

=============================================================================
